---- MODULE Spec2Model ----
(***************************************************************************)
(* A model of screenshot-control: the capture pipeline of cli.py           *)
(* (web_screenshot / capture_full_page), the CLI entry point, the HTTP     *)
(* service (server/main.py, server/service.py) and the client library      *)
(* (client/screenshot_client.py).                                          *)
(*                                                                         *)
(* A session is one caller-visible operation: either one run of the CLI    *)
(* (main) or one call of a ScreenshotClient method travelling through the  *)
(* server.  Every driver call is one step, so that a failure can strike    *)
(* between any two of them.                                                *)
(***************************************************************************)
EXTENDS Integers, Sequences, FiniteSets, TLC

(* ---------------------------------------------------------------------- *)
(* Bounds                                                                  *)
(* ---------------------------------------------------------------------- *)
MaxPageHeight == 7        \* largest page height the driver reports
MaxViewportHeight == 3    \* largest window.innerHeight the driver reports
MaxTime == 2              \* clock readings (seconds) seen by sanitize_filename
MaxPngLen == 3            \* longest PNG byte string fed to the codec

Sessions == {"s1", "s2"}

(* ---------------------------------------------------------------------- *)
(* Values                                                                  *)
(* ---------------------------------------------------------------------- *)
\* Values returned by driver.execute_script: an integer or JavaScript null
\* (Python None).  Unset marks a local variable not yet assigned.
JsInt(n) == [t |-> "int", v |-> n]
JsNull == [t |-> "null", v |-> 0]
Unset == [t |-> "unset", v |-> 0]
IsInt(x) == x.t = "int"

PageHeights == {JsInt(n) : n \in 1..MaxPageHeight} \cup {JsNull}
ViewportHeights == {JsInt(n) : n \in 0..MaxViewportHeight} \cup {JsNull}

\* Python None where a width/height/output argument is optional
NoneInt == 0
NoPath == [dir |-> "", safe |-> "None", ts |-> 0]

\* cli.py PRESETS
PRESETS ==
  [p \in {"desktop", "laptop", "tablet", "phone", "phone-ls", "4k"} |->
     CASE p = "desktop"  -> [width |-> 1920, height |-> 1080, desc |-> "Desktop HD"]
       [] p = "laptop"   -> [width |-> 1366, height |-> 768,  desc |-> "Laptop"]
       [] p = "tablet"   -> [width |-> 768,  height |-> 1024, desc |-> "iPad/Tablet"]
       [] p = "phone"    -> [width |-> 390,  height |-> 844,  desc |-> "iPhone 12/13/14"]
       [] p = "phone-ls" -> [width |-> 844,  height |-> 390,  desc |-> "iPhone Landscape"]
       [] p = "4k"       -> [width |-> 3840, height |-> 2160, desc |-> "4K Display"]]

PresetNames == DOMAIN PRESETS

\* URLs as urlparse splits them
Urls == { [scheme |-> "https", netloc |-> "example.com", path |-> ""],
          [scheme |-> "", netloc |-> "", path |-> "not-a-url"] }

is_url(u) == u.scheme # "" /\ u.netloc # ""

\* sanitize_filename: host and path made safe, followed by the clock reading
sanitize_filename(url, now) == [dir |-> "", safe |-> url.netloc, ts |-> now]

\* Output arguments: none, a file name, a directory (ends with '/')
OutputArgs == { [given |-> FALSE, isdir |-> FALSE, name |-> ""],
                [given |-> TRUE,  isdir |-> FALSE, name |-> "out.png"],
                [given |-> TRUE,  isdir |-> TRUE,  name |-> "shots/"] }

get_output_path(url, output_arg, now) ==
  IF ~output_arg.given THEN sanitize_filename(url, now)
  ELSE IF output_arg.isdir
       THEN [sanitize_filename(url, now) EXCEPT !.dir = output_arg.name]
       ELSE [dir |-> "", safe |-> output_arg.name, ts |-> 0]

\* class ScreenshotConfig
ScreenshotConfig(w, h, fp) == [width |-> w, height |-> h, full_page |-> fp]
DefaultConfig == ScreenshotConfig(1920, 1080, FALSE)
from_preset(p) == ScreenshotConfig(PRESETS[p].width, PRESETS[p].height, FALSE)

(* ---------------------------------------------------------------------- *)
(* capture_full_page: the tiling arithmetic                                *)
(* ---------------------------------------------------------------------- *)
\* a variant of NumScreenshots that rounds down
NumScreenshotsFloor(total, vh) == total \div vh

\* num_screenshots = -(-total_height // viewport_height)
NumScreenshots(total, vh) == -((-total) \div vh)

\* a variant of ScrollPos that is one viewport ahead
ScrollPosAhead(i, vh) == (i + 1) * vh

\* scroll_pos = i * viewport_height
ScrollPos(i, vh) == i * vh

\* a variant of PasteHeight that counts tiles from 1
PasteHeightFromOne(i, vh) == (i + 1) * vh

\* paste_height = i * viewport_height
PasteHeight(i, vh) == i * vh

\* a variant of CropHeight that takes the remainder for the last tile
CropHeightRemainder(i, n, total, vh) ==
  IF i = n - 1 THEN total % vh ELSE vh

\* crop_height = total_height - paste_height if is_last else viewport_height
CropHeight(i, n, total, vh) ==
  IF i = n - 1 THEN total - PasteHeight(i, vh) ELSE vh

\* Image.new('RGB', (config.width, total_height)): every row starts unwritten.
\* rows[y] lists, in paste order, the tiles that wrote row y.
NewImage(w, h) ==
  [kind |-> "full", width |-> w, height |-> h, rows |-> [y \in 0..(h - 1) |-> <<>>]]

\* screenshot.crop((0, 0, config.width, crop_height)) then
\* final_image.paste(cropped, (0, paste_height)); paste clips to the image
Paste(img, i, off, ch) ==
  [img EXCEPT !.rows =
     [y \in 0..(img.height - 1) |->
        IF y >= off /\ y < off + ch THEN Append(img.rows[y], i) ELSE img.rows[y]]]

\* the paste loop over enumerate(screenshots): tiles i..count-1 of the count
\* captured ones are still to paste; n is num_screenshots
RECURSIVE PasteFrom(_, _, _, _, _, _)
PasteFrom(img, i, count, n, total, vh) ==
  IF i >= count THEN img
  ELSE PasteFrom(Paste(img, i, PasteHeight(i, vh), CropHeight(i, n, total, vh)),
                 i + 1, count, n, total, vh)

\* the (index, offset, crop height) of every paste, in loop order
RECURSIVE PasteLog(_, _, _, _, _)
PasteLog(i, count, n, total, vh) ==
  IF i >= count THEN <<>>
  ELSE <<[index |-> i, offset |-> PasteHeight(i, vh),
          crop |-> CropHeight(i, n, total, vh)]>>
       \o PasteLog(i + 1, count, n, total, vh)

\* the image save_screenshot writes: one viewport at the current scroll position
ViewportImage(cfg, y) ==
  [kind |-> "viewport", width |-> cfg.width, height |-> cfg.height, scrollY |-> y]

NoImage == [kind |-> "none", width |-> 0, height |-> 0]

\* the bytes of an image saved as PNG: the signature's first bytes, then the size
PngBytes(img) == <<137, 80, img.width % 256, img.height % 256>>

\* a file: who wrote it, the image it holds and its bytes
NoFile == [writer |-> "nobody", image |-> NoImage, data |-> <<>>]
ImageFile(s, img) == [writer |-> s, image |-> img, data |-> PngBytes(img)]


(* ---------------------------------------------------------------------- *)
(* State                                                                   *)
(* ---------------------------------------------------------------------- *)
VARIABLES
  live,             \* the sessions that run in this behaviour
  pc,               \* pc[s]: where session s stands
  kind,             \* kind[s]: "cli" (main) or "api" (a ScreenshotClient call)
  config,           \* config[s]: the ScreenshotConfig web_screenshot works with
  output_path,      \* output_path[s]: web_screenshot's output_path
  driver,           \* driver[s]: "none", "open" (created) or "quit" (released)
  driverLog,        \* driverLog[s]: the driver calls made so far, in order
  scrollY,          \* scrollY[s]: the page's vertical scroll position
  total_height,     \* capture_full_page locals
  viewport_height,
  num_screenshots,
  screenshots,      \* screenshots[s]: the tiles captured so far
  pastes,           \* pastes[s]: the pastes made into final_image, in order
  final_image,      \* final_image[s]: the image capture_full_page returned
  failed,           \* failed[s]: the step that raised, or "none"
  wsResult,         \* wsResult[s]: what web_screenshot returned
  exitCode,         \* exitCode[s]: the CLI's exit status (-1: still running)
  files,            \* files[p]: the file at path p
  request,          \* request[s]: the HTTP request the client sent
  response,         \* response[s]: the HTTP response the server gave
  svcResult,        \* svcResult[s]: what ScreenshotService.take_screenshot returned
  clientResult,     \* clientResult[s]: how the client method ended
  svcDims,          \* svcDims[s]: the w, h the service chose
  codec             \* the encode/respond/decode chain applied to given PNG bytes

Times == 1..MaxTime

TempPath(s) == [dir |-> "/tmp", safe |-> s, ts |-> 0]

\* the output_path the client test passes to get_screenshot
ClientOutputPath == [dir |-> "", safe |-> "test_screenshot.png", ts |-> 0]

Paths ==
  {get_output_path(u, o, t) : u \in {x \in Urls : is_url(x)},
                              o \in OutputArgs, t \in Times}
  \cup {TempPath(s) : s \in Sessions}
  \cup {ClientOutputPath}

NoResult == [set |-> FALSE, success |-> FALSE, path |-> NoPath]
WsReturn(ok, p) == [set |-> TRUE, success |-> ok, path |-> p]

\* return True, output_path  (cli.py 160, 165)
SuccessResult(p) == WsReturn(TRUE, p)
\* a variant of ExceptResult that reports success
ExceptResultSuccess == WsReturn(TRUE, NoPath)

\* return False, None  (cli.py 169)
ExceptResult == WsReturn(FALSE, NoPath)

captureVars == <<config, output_path, driver, driverLog, scrollY, total_height,
                 viewport_height, num_screenshots, screenshots, pastes,
                 final_image, failed, wsResult>>

apiVars == <<request, response, svcResult, clientResult, svcDims>>

coreVars == <<live, pc, kind, config, output_path, driver, driverLog, scrollY,
              total_height, viewport_height, num_screenshots, screenshots,
              pastes, final_image, failed, wsResult, exitCode, files>>

InitCore(L) ==
  /\ live = L
  /\ pc = [s \in Sessions |-> "idle"]
  /\ kind = [s \in Sessions |-> "none"]
  /\ config = [s \in Sessions |-> DefaultConfig]
  /\ output_path = [s \in Sessions |-> NoPath]
  /\ driver = [s \in Sessions |-> "none"]
  /\ driverLog = [s \in Sessions |-> <<>>]
  /\ scrollY = [s \in Sessions |-> 0]
  /\ total_height = [s \in Sessions |-> Unset]
  /\ viewport_height = [s \in Sessions |-> Unset]
  /\ num_screenshots = [s \in Sessions |-> Unset]
  /\ screenshots = [s \in Sessions |-> <<>>]
  /\ pastes = [s \in Sessions |-> <<>>]
  /\ final_image = [s \in Sessions |-> NoImage]
  /\ failed = [s \in Sessions |-> "none"]
  /\ wsResult = [s \in Sessions |-> NoResult]
  /\ exitCode = [s \in Sessions |-> -1]
  /\ files = [p \in Paths |-> NoFile]

(* ---------------------------------------------------------------------- *)
(* cli.py: main                                                            *)
(* ---------------------------------------------------------------------- *)
CustomWidths == {NoneInt, 800}
CustomHeights == {NoneInt, 600}

\* the config main builds from the parsed arguments (cli.py 225-235)
MainConfig(preset, width, height, full_page) ==
  IF width # NoneInt /\ height # NoneInt
  THEN ScreenshotConfig(width, height, full_page)
  ELSE [from_preset(preset) EXCEPT !.full_page = full_page]

\* main up to the call of web_screenshot, and web_screenshot up to the
\* creation of the driver (cli.py 206-241, 147-151)
CliMain(s) ==
  /\ s \in live
  /\ pc[s] = "idle"
  /\ kind' = [kind EXCEPT ![s] = "cli"]
  /\ \E list \in BOOLEAN, url \in Urls, out \in OutputArgs, preset \in PresetNames,
        width \in CustomWidths, height \in CustomHeights, full_page \in BOOLEAN,
        now \in Times :
       IF list
       THEN /\ pc' = [pc EXCEPT ![s] = "done"]
            /\ exitCode' = [exitCode EXCEPT ![s] = 0]
            /\ UNCHANGED <<config, output_path>>
       ELSE IF ~is_url(url)
       THEN /\ pc' = [pc EXCEPT ![s] = "done"]
            /\ exitCode' = [exitCode EXCEPT ![s] = 1]
            /\ UNCHANGED <<config, output_path>>
       ELSE /\ config' = [config EXCEPT ![s] = MainConfig(preset, width, height, full_page)]
            /\ output_path' = [output_path EXCEPT ![s] = get_output_path(url, out, now)]
            /\ pc' = [pc EXCEPT ![s] = "ws_setup"]
            /\ UNCHANGED exitCode
  /\ UNCHANGED <<apiVars, codec, live, driver, driverLog, scrollY, total_height, viewport_height,
                 num_screenshots, screenshots, pastes, final_image, failed,
                 wsResult, files>>

\* main after web_screenshot returned (cli.py 243-249)
CliExit(s) ==
  /\ s \in live
  /\ pc[s] = "ws_returned"
  /\ kind[s] = "cli"
  /\ exitCode' = [exitCode EXCEPT ![s] = IF wsResult[s].success THEN 0 ELSE 1]
  /\ pc' = [pc EXCEPT ![s] = "done"]
  /\ UNCHANGED <<apiVars, codec, live, kind, config, output_path, driver, driverLog, scrollY,
                 total_height, viewport_height, num_screenshots, screenshots,
                 pastes, final_image, failed, wsResult, files>>

\* an exception web_screenshot does not catch ends the process with a
\* traceback and exit status 1
CliUncaught(s) ==
  /\ s \in live
  /\ pc[s] = "ws_raised"
  /\ kind[s] = "cli"
  /\ exitCode' = [exitCode EXCEPT ![s] = 1]
  /\ pc' = [pc EXCEPT ![s] = "done"]
  /\ UNCHANGED <<apiVars, codec, live, kind, config, output_path, driver, driverLog, scrollY,
                 total_height, viewport_height, num_screenshots, screenshots,
                 pastes, final_image, failed, wsResult, files>>

(* ---------------------------------------------------------------------- *)
(* cli.py: web_screenshot                                                  *)
(* ---------------------------------------------------------------------- *)
\* a driver call raised WebDriverException (or the save raised IOError):
\* control goes to the except clause
Raise(s, step) ==
  /\ failed' = [failed EXCEPT ![s] = step]
  /\ pc' = [pc EXCEPT ![s] = "ws_except"]

\* driver = setup_webdriver(config)  (cli.py 153)
SetupWebdriver(s) ==
  /\ s \in live
  /\ pc[s] = "ws_setup"
  /\ \E ok \in BOOLEAN :
       IF ok
       THEN /\ driver' = [driver EXCEPT ![s] = "open"]
            /\ pc' = [pc EXCEPT ![s] = "ws_get"]
            /\ UNCHANGED failed
       ELSE /\ Raise(s, "setup")
            /\ UNCHANGED driver
  /\ UNCHANGED <<apiVars, codec, live, kind, config, output_path, driverLog, scrollY, total_height,
                 viewport_height, num_screenshots, screenshots, pastes,
                 final_image, wsResult, exitCode, files>>

\* a variant of AfterGet that always takes the full-page path
AfterGetFullPage(cfg) == "cfp_total"

\* where web_screenshot goes after the page has loaded (cli.py 157)
AfterGet(cfg) == IF ~cfg.full_page THEN "ws_shot" ELSE "cfp_total"

\* driver.get(url); time.sleep(config.wait)  (cli.py 154-157)
DriverGet(s) ==
  /\ s \in live
  /\ pc[s] = "ws_get"
  /\ driverLog' = [driverLog EXCEPT ![s] = Append(@, <<"get", 0>>)]
  /\ \E ok \in BOOLEAN :
       IF ok
       THEN /\ pc' = [pc EXCEPT ![s] = AfterGet(config[s])]
            /\ UNCHANGED failed
       ELSE Raise(s, "get")
  /\ UNCHANGED <<apiVars, codec, live, kind, config, output_path, driver, scrollY, total_height,
                 viewport_height, num_screenshots, screenshots, pastes,
                 final_image, wsResult, exitCode, files>>

\* driver.save_screenshot(output_path)  (cli.py 158)
SaveScreenshot(s) ==
  /\ s \in live
  /\ pc[s] = "ws_shot"
  /\ driverLog' = [driverLog EXCEPT ![s] = Append(@, <<"screenshot", scrollY[s]>>)]
  /\ \E ok \in BOOLEAN :
       IF ok
       THEN /\ files' = [files EXCEPT ![output_path[s]] =
                           ImageFile(s, ViewportImage(config[s], scrollY[s]))]
            /\ pc' = [pc EXCEPT ![s] = "ws_quit"]
            /\ UNCHANGED failed
       ELSE /\ Raise(s, "screenshot")
            /\ UNCHANGED files
  /\ UNCHANGED <<apiVars, codec, live, kind, config, output_path, driver, scrollY, total_height,
                 viewport_height, num_screenshots, screenshots, pastes,
                 final_image, wsResult, exitCode>>

\* driver.quit(); return True, output_path  (cli.py 159-160, 164-165)
DriverQuit(s) ==
  /\ s \in live
  /\ pc[s] = "ws_quit"
  /\ driver' = [driver EXCEPT ![s] = "quit"]
  /\ driverLog' = [driverLog EXCEPT ![s] = Append(@, <<"quit", 0>>)]
  /\ wsResult' = [wsResult EXCEPT ![s] = SuccessResult(output_path[s])]
  /\ pc' = [pc EXCEPT ![s] = "ws_returned"]
  /\ UNCHANGED <<apiVars, codec, live, kind, config, output_path, scrollY, total_height,
                 viewport_height, num_screenshots, screenshots, pastes,
                 final_image, failed, exitCode, files>>

\* what the except clause of web_screenshot does to the driver: nothing
ExceptDriver(d) == d

\* except (WebDriverException, IOError): return False, None  (cli.py 167-169)
Except(s) ==
  /\ s \in live
  /\ pc[s] = "ws_except"
  /\ driver' = [driver EXCEPT ![s] = ExceptDriver(@)]
  /\ wsResult' = [wsResult EXCEPT ![s] = ExceptResult]
  /\ pc' = [pc EXCEPT ![s] = "ws_returned"]
  /\ UNCHANGED <<apiVars, codec, live, kind, config, output_path, driverLog, scrollY, total_height,
                 viewport_height, num_screenshots, screenshots, pastes,
                 final_image, failed, exitCode, files>>


(* ---------------------------------------------------------------------- *)
(* cli.py: capture_full_page                                               *)
(* ---------------------------------------------------------------------- *)
\* total_height = get_page_height(driver)  (cli.py 114, 96-105)
MeasureTotal(s) ==
  /\ s \in live
  /\ pc[s] = "cfp_total"
  /\ driverLog' = [driverLog EXCEPT ![s] = Append(@, <<"page_height", 0>>)]
  /\ \E ok \in BOOLEAN :
       IF ok
       THEN /\ \E h \in PageHeights : total_height' = [total_height EXCEPT ![s] = h]
            /\ pc' = [pc EXCEPT ![s] = "cfp_viewport"]
            /\ UNCHANGED failed
       ELSE /\ Raise(s, "page_height")
            /\ UNCHANGED total_height
  /\ UNCHANGED <<apiVars, codec, live, kind, config, output_path, driver, scrollY, viewport_height,
                 num_screenshots, screenshots, pastes, final_image, wsResult,
                 exitCode, files>>

\* the exception line 116 raises for the measured values, or "none":
\* negating or dividing None is a TypeError, dividing by 0 a ZeroDivisionError
ArithmeticError(total, vh) ==
  IF ~IsInt(total) \/ ~IsInt(vh) THEN "TypeError"
  ELSE IF vh.v = 0 THEN "ZeroDivisionError"
  ELSE "none"

\* where the capture loop starts: range(num_screenshots) may be empty
LoopEntry(n) == IF n > 0 THEN "cfp_scroll" ELSE "cfp_stitch"

\* viewport_height = driver.execute_script("return window.innerHeight")
\* num_screenshots = -(-total_height // viewport_height)  (cli.py 115-117)
MeasureViewport(s) ==
  /\ s \in live
  /\ pc[s] = "cfp_viewport"
  /\ driverLog' = [driverLog EXCEPT ![s] = Append(@, <<"inner_height", 0>>)]
  /\ \E ok \in BOOLEAN :
       IF ok
       THEN \E v \in ViewportHeights :
              /\ viewport_height' = [viewport_height EXCEPT ![s] = v]
              /\ LET err == ArithmeticError(total_height[s], v) IN
                 IF err # "none"
                 THEN /\ failed' = [failed EXCEPT ![s] = err]
                      /\ pc' = [pc EXCEPT ![s] = "ws_raised"]
                      /\ UNCHANGED num_screenshots
                 ELSE LET n == NumScreenshots(total_height[s].v, v.v) IN
                      /\ num_screenshots' = [num_screenshots EXCEPT ![s] = JsInt(n)]
                      /\ pc' = [pc EXCEPT ![s] = LoopEntry(n)]
                      /\ UNCHANGED failed
       ELSE /\ Raise(s, "inner_height")
            /\ UNCHANGED <<viewport_height, num_screenshots>>
  /\ UNCHANGED <<apiVars, codec, live, kind, config, output_path, driver, scrollY, total_height,
                 screenshots, pastes, final_image, wsResult, exitCode, files>>

\* driver.execute_script(f"window.scrollTo(0, {scroll_pos})"); time.sleep(0.2)
\* (cli.py 119-122); i is the number of tiles captured so far
Scroll(s) ==
  /\ s \in live
  /\ pc[s] = "cfp_scroll"
  /\ LET scroll_pos == ScrollPos(Len(screenshots[s]), viewport_height[s].v) IN
     /\ driverLog' = [driverLog EXCEPT ![s] = Append(@, <<"scroll", scroll_pos>>)]
     /\ \E ok \in BOOLEAN :
          IF ok
          THEN /\ scrollY' = [scrollY EXCEPT ![s] = scroll_pos]
               /\ pc' = [pc EXCEPT ![s] = "cfp_capture"]
               /\ UNCHANGED failed
          ELSE /\ Raise(s, "scroll")
               /\ UNCHANGED scrollY
  /\ UNCHANGED <<apiVars, codec, live, kind, config, output_path, driver, total_height,
                 viewport_height, num_screenshots, screenshots, pastes,
                 final_image, wsResult, exitCode, files>>

\* screenshots.append(take_screenshot(driver))  (cli.py 123, 107-110)
Capture(s) ==
  /\ s \in live
  /\ pc[s] = "cfp_capture"
  /\ driverLog' = [driverLog EXCEPT ![s] = Append(@, <<"capture", scrollY[s]>>)]
  /\ \E ok \in BOOLEAN :
       IF ok
       THEN /\ screenshots' = [screenshots EXCEPT ![s] = Append(@, [scroll |-> scrollY[s]])]
            /\ pc' = [pc EXCEPT ![s] =
                        IF Len(screenshots[s]) + 1 < num_screenshots[s].v
                        THEN "cfp_scroll" ELSE "cfp_stitch"]
            /\ UNCHANGED failed
       ELSE /\ Raise(s, "capture")
            /\ UNCHANGED screenshots
  /\ UNCHANGED <<apiVars, codec, live, kind, config, output_path, driver, scrollY, total_height,
                 viewport_height, num_screenshots, pastes, final_image, wsResult,
                 exitCode, files>>

\* a variant of FinalSize that takes the window's height
FinalSizeOfWindow(cfg, total) == [w |-> cfg.width, h |-> cfg.height]

\* the size given to Image.new: (config.width, total_height)  (cli.py 125)
FinalSize(cfg, total) == [w |-> cfg.width, h |-> total]

\* final_image = Image.new(...); the paste loop; return final_image
\* (cli.py 125-134)
Stitch(s) ==
  /\ s \in live
  /\ pc[s] = "cfp_stitch"
  /\ LET size == FinalSize(config[s], total_height[s].v)
         count == Len(screenshots[s])
         n == num_screenshots[s].v
     IN /\ final_image' = [final_image EXCEPT ![s] =
                             PasteFrom(NewImage(size.w, size.h), 0, count, n,
                                       total_height[s].v, viewport_height[s].v)]
        /\ pastes' = [pastes EXCEPT ![s] =
                        PasteLog(0, count, n, total_height[s].v, viewport_height[s].v)]
  /\ pc' = [pc EXCEPT ![s] = "ws_save"]
  /\ UNCHANGED <<apiVars, codec, live, kind, config, output_path, driver, driverLog, scrollY,
                 total_height, viewport_height, num_screenshots, screenshots,
                 failed, wsResult, exitCode, files>>

\* final_image.save(output_path, 'PNG')  (cli.py 163)
SaveImage(s) ==
  /\ s \in live
  /\ pc[s] = "ws_save"
  /\ \E ok \in BOOLEAN :
       IF ok
       THEN /\ files' = [files EXCEPT ![output_path[s]] =
                           ImageFile(s, final_image[s])]
            /\ pc' = [pc EXCEPT ![s] = "ws_quit"]
            /\ UNCHANGED failed
       ELSE /\ Raise(s, "save")
            /\ UNCHANGED files
  /\ UNCHANGED <<apiVars, codec, live, kind, config, output_path, driver, driverLog, scrollY,
                 total_height, viewport_height, num_screenshots, screenshots,
                 pastes, final_image, wsResult, exitCode>>


(* ---------------------------------------------------------------------- *)
(* base64 and the response encodings                                       *)
(* ---------------------------------------------------------------------- *)
\* A base64 text is a sequence of symbols: 0..63 are the alphabet's digits,
\* PadSym is '='.
PadSym == 64

\* base64.b64encode(image_data).decode('utf-8')  (service.py 49)
RECURSIVE b64encode(_)
b64encode(b) ==
  IF Len(b) = 0 THEN <<>>
  ELSE IF Len(b) = 1
  THEN <<b[1] \div 4, (b[1] % 4) * 16, PadSym, PadSym>>
  ELSE IF Len(b) = 2
  THEN <<b[1] \div 4, (b[1] % 4) * 16 + b[2] \div 16, (b[2] % 16) * 4, PadSym>>
  ELSE <<b[1] \div 4, (b[1] % 4) * 16 + b[2] \div 16,
         (b[2] % 16) * 4 + b[3] \div 64, b[3] % 64>>
       \o b64encode(SubSeq(b, 4, Len(b)))

\* base64.b64decode(result["image"])  (screenshot_client.py 73)
RECURSIVE b64decode(_)
b64decode(t) ==
  IF Len(t) < 4 THEN <<>>
  ELSE (IF t[3] = PadSym
        THEN <<t[1] * 4 + t[2] \div 16>>
        ELSE IF t[4] = PadSym
        THEN <<t[1] * 4 + t[2] \div 16, (t[2] % 16) * 16 + t[3] \div 4>>
        ELSE <<t[1] * 4 + t[2] \div 16, (t[2] % 16) * 16 + t[3] \div 4,
               (t[3] % 4) * 64 + t[4]>>)
       \o b64decode(SubSeq(t, 5, Len(t)))

\* the ASCII code of a base64 symbol: A-Z, a-z, 0-9, '+', '/', '='
AsciiOf(c) ==
  IF c < 26 THEN 65 + c
  ELSE IF c < 52 THEN 97 + (c - 26)
  ELSE IF c < 62 THEN 48 + (c - 52)
  ELSE IF c = 62 THEN 43
  ELSE IF c = 63 THEN 47
  ELSE 61

\* a str given as the content of a Response is sent as its encoded bytes
StrToBytes(t) == [k \in 1..Len(t) |-> AsciiOf(t[k])]

NoJson == [kind |-> "none", image |-> <<>>]
Response(status, json, content) == [status |-> status, json |-> json, content |-> content]
NoResponse == Response(0, NoJson, <<>>)

\* the answer of POST /api/screenshot to a successful capture (main.py 174-183)
ScreenshotReply(format, image) ==
  IF format = "binary"
  THEN Response(200, NoJson, StrToBytes(image))
  ELSE Response(200, [kind |-> "screenshot", image |-> image], <<>>)

\* the image bytes get_screenshot takes from a 200 response
\* (screenshot_client.py 69-73)
ClientImageData(format, resp) ==
  IF format = "binary" THEN resp.content ELSE b64decode(resp.json.image)


(* ---------------------------------------------------------------------- *)
(* Client, server and service state                                        *)
(* ---------------------------------------------------------------------- *)
vars == <<coreVars, apiVars, codec>>

\* ScreenshotClient(base_url): the path part of base_url after rstrip('/');
\* the first is the default "http://localhost:8765"
BaseUrls == { <<>>, <<"api">> }

ClientOps == {"health_check", "get_presets", "get_screenshot"}
ClientPresets == PresetNames \cup {"bogus"}
Formats == {"base64", "binary"}

NoData == [url |-> [scheme |-> "", netloc |-> "", path |-> ""], preset |-> "desktop",
           width |-> NoneInt, height |-> NoneInt, format |-> "base64",
           full_page |-> FALSE]
NoRequest == [op |-> "none", method |-> "", path |-> <<>>, data |-> NoData,
              output |-> FALSE]

\* the method and last path segment each client method uses
\* (screenshot_client.py 18, 60-61, 96)
ClientMethod(op) == IF op = "get_screenshot" THEN "POST" ELSE "GET"
ClientSegment(op) ==
  CASE op = "health_check" -> "health"
    [] op = "get_presets" -> "presets"
    [] op = "get_screenshot" -> "screenshot"

\* f"{self.base_url}/<segment>"
ClientPath(base, op) == base \o <<ClientSegment(op)>>

\* the JSON body get_screenshot posts (screenshot_client.py 48-57)
ClientData(url, preset, width, height, format, full_page) ==
  [url |-> url, preset |-> preset,
   width |-> IF width # NoneInt /\ height # NoneInt THEN width ELSE NoneInt,
   height |-> IF width # NoneInt /\ height # NoneInt THEN height ELSE NoneInt,
   format |-> format, full_page |-> full_page]

\* the routes of server/main.py: @app.get("/"), @app.get("/api/presets"),
\* @app.post("/api/screenshot"), @app.get("/api/health")
Route(method, path) ==
  IF method = "GET" /\ path = <<>> THEN "home"
  ELSE IF method = "GET" /\ path = <<"api", "presets">> THEN "get_presets"
  ELSE IF method = "POST" /\ path = <<"api", "screenshot">> THEN "take_screenshot"
  ELSE IF method = "GET" /\ path = <<"api", "health">> THEN "health_check"
  ELSE "none"

NoSvcResult == [set |-> FALSE, success |-> FALSE, error |-> "", image |-> <<>>]
SvcReturn(ok, err, img) == [set |-> TRUE, success |-> ok, error |-> err, image |-> img]

NoClientResult == [state |-> "none", json |-> NoJson, data |-> <<>>, path |-> NoPath]

CodecIdle == [stage |-> "idle", png |-> <<>>, format |-> "base64", image |-> <<>>,
              response |-> NoResponse, data |-> <<>>]

InitApi ==
  /\ request = [s \in Sessions |-> NoRequest]
  /\ response = [s \in Sessions |-> NoResponse]
  /\ svcResult = [s \in Sessions |-> NoSvcResult]
  /\ clientResult = [s \in Sessions |-> NoClientResult]
  /\ svcDims = [s \in Sessions |-> [w |-> NoneInt, h |-> NoneInt]]

(* ---------------------------------------------------------------------- *)
(* client/screenshot_client.py: sending                                    *)
(* ---------------------------------------------------------------------- *)
\* health_check, get_presets, get_screenshot up to the request being sent
\* (screenshot_client.py 15-18, 48-63, 93-96)
ClientCall(s) ==
  /\ s \in live
  /\ pc[s] = "idle"
  /\ kind' = [kind EXCEPT ![s] = "api"]
  /\ \E op \in ClientOps, base \in BaseUrls :
       IF op = "get_screenshot"
       THEN \E url \in Urls, preset \in ClientPresets, width \in CustomWidths,
               height \in CustomHeights, format \in Formats, full_page \in BOOLEAN,
               output \in BOOLEAN :
              request' = [request EXCEPT ![s] =
                [op |-> op, method |-> ClientMethod(op), path |-> ClientPath(base, op),
                 data |-> ClientData(url, preset, width, height, format, full_page),
                 output |-> output]]
       ELSE request' = [request EXCEPT ![s] =
                [op |-> op, method |-> ClientMethod(op), path |-> ClientPath(base, op),
                 data |-> NoData, output |-> FALSE]]
  /\ pc' = [pc EXCEPT ![s] = "http_sent"]
  /\ UNCHANGED <<svcDims, codec, live, config, output_path, driver, driverLog, scrollY, total_height,
                 viewport_height, num_screenshots, screenshots, pastes, final_image,
                 failed, wsResult, exitCode, files, response, svcResult, clientResult>>

\* any other HTTP client (the web page, curl) posting a ScreenshotRequest body
\* to /api/screenshot: width and height are optional one by one
\* (main.py 62-95)
HttpPost(s) ==
  /\ s \in live
  /\ pc[s] = "idle"
  /\ kind' = [kind EXCEPT ![s] = "api"]
  /\ \E url \in Urls, preset \in ClientPresets, width \in CustomWidths,
        height \in CustomHeights, format \in Formats, full_page \in BOOLEAN :
       request' = [request EXCEPT ![s] =
         [op |-> "post_screenshot", method |-> "POST", path |-> <<"api", "screenshot">>,
          data |-> [url |-> url, preset |-> preset, width |-> width, height |-> height,
                    format |-> format, full_page |-> full_page],
          output |-> FALSE]]
  /\ pc' = [pc EXCEPT ![s] = "http_sent"]
  /\ UNCHANGED <<svcDims, codec, live, config, output_path, driver, driverLog, scrollY,
                 total_height, viewport_height, num_screenshots, screenshots, pastes,
                 final_image, failed, wsResult, exitCode, files, response, svcResult,
                 clientResult>>

(* ---------------------------------------------------------------------- *)
(* server/main.py                                                          *)
(* ---------------------------------------------------------------------- *)
Answer(s, resp) ==
  /\ response' = [response EXCEPT ![s] = resp]
  /\ pc' = [pc EXCEPT ![s] = "http_resp"]

\* no route matches the request: 404 (405 if only the method differs)
ServerNotFound(s) ==
  /\ s \in live
  /\ pc[s] = "http_sent"
  /\ Route(request[s].method, request[s].path) = "none"
  /\ Answer(s, Response(404, [kind |-> "error", image |-> <<>>], <<>>))
  /\ UNCHANGED <<svcDims, codec, live, kind, captureVars, exitCode, files, request, svcResult,
                 clientResult>>


\* GET /api/presets  (main.py 126-143)
get_presets(s) ==
  /\ s \in live
  /\ pc[s] = "http_sent"
  /\ Route(request[s].method, request[s].path) = "get_presets"
  /\ Answer(s, Response(200, [kind |-> "presets", image |-> <<>>], <<>>))
  /\ UNCHANGED <<svcDims, codec, live, kind, captureVars, exitCode, files, request, svcResult,
                 clientResult>>

\* GET /api/health  (main.py 185-194)
health_check(s) ==
  /\ s \in live
  /\ pc[s] = "http_sent"
  /\ Route(request[s].method, request[s].path) = "health_check"
  /\ Answer(s, Response(200, [kind |-> "healthy", image |-> <<>>], <<>>))
  /\ UNCHANGED <<svcDims, codec, live, kind, captureVars, exitCode, files, request, svcResult,
                 clientResult>>

\* a variant of RejectStatus that rejects every unknown preset
RejectStatusUnknownPreset(data) ==
  IF ~is_url(data.url) THEN 422
  ELSE IF data.preset \notin PresetNames THEN 400
  ELSE 0

\* the status POST /api/screenshot answers before it calls the service, or 0:
\* 422 when the body does not validate as a ScreenshotRequest (url: HttpUrl),
\* 400 for an unknown preset without both dimensions  (main.py 62-95, 157-161)
RejectStatus(data) ==
  IF ~is_url(data.url) THEN 422
  ELSE IF data.preset \notin PresetNames
          /\ ~(data.width # NoneInt /\ data.height # NoneInt) THEN 400
  ELSE 0

\* POST /api/screenshot up to the call of the service  (main.py 155-169)
ApiTakeScreenshot(s) ==
  /\ s \in live
  /\ pc[s] = "http_sent"
  /\ Route(request[s].method, request[s].path) = "take_screenshot"
  /\ LET status == RejectStatus(request[s].data) IN
     IF status # 0
     THEN Answer(s, Response(status, [kind |-> "error", image |-> <<>>], <<>>))
     ELSE /\ pc' = [pc EXCEPT ![s] = "svc_call"]
          /\ UNCHANGED response
  /\ UNCHANGED <<svcDims, codec, live, kind, captureVars, exitCode, files, request, svcResult,
                 clientResult>>

\* POST /api/screenshot after the service returned  (main.py 171-183)
ApiRespond(s) ==
  /\ s \in live
  /\ pc[s] = "svc_returned"
  /\ Answer(s, IF ~svcResult[s].success
               THEN Response(500, [kind |-> "error", image |-> <<>>], <<>>)
               ELSE ScreenshotReply(request[s].data.format, svcResult[s].image))
  /\ UNCHANGED <<svcDims, codec, live, kind, captureVars, exitCode, files, request, svcResult,
                 clientResult>>

(* ---------------------------------------------------------------------- *)
(* server/service.py: ScreenshotService.take_screenshot                    *)
(* ---------------------------------------------------------------------- *)
\* def web_screenshot(url, output_path=None, config=None)  (cli.py 136)
WebScreenshotParams == {"url", "output_path", "config"}

\* the keyword arguments of the service's call  (service.py 33-39)
ServiceCallKeywords == {"url", "output_path", "width", "height", "full_page"}

\* a call with a keyword the function does not have raises TypeError
CallBinds(keywords, params) == keywords \subseteq params

\* the exception the service's try block raises before web_screenshot runs,
\* or "none": PRESETS[preset] of an unknown preset is a KeyError, a call that
\* does not bind a TypeError  (service.py 25-39)
ServiceCallError(data) ==
  IF ~(data.width # NoneInt /\ data.height # NoneInt) /\ data.preset \notin PresetNames
  THEN "KeyError"
  ELSE IF ~CallBinds(ServiceCallKeywords, WebScreenshotParams) THEN "TypeError"
  ELSE "none"

\* the service's locals w, h before it has chosen them
NoDims == [w |-> NoneInt, h |-> NoneInt]

\* w, h = width, height if both are given, else those of PRESETS[preset]
\* (service.py 27-30)
ServiceDims(data) ==
  IF data.width # NoneInt /\ data.height # NoneInt
  THEN [w |-> data.width, h |-> data.height]
  ELSE [w |-> PRESETS[data.preset].width, h |-> PRESETS[data.preset].height]

\* the config a call of web_screenshot with these dimensions would work with
\* (service.py 33-39)
ServiceConfig(data) ==
  IF data.width # NoneInt /\ data.height # NoneInt
  THEN ScreenshotConfig(data.width, data.height, data.full_page)
  ELSE ScreenshotConfig(PRESETS[data.preset].width, PRESETS[data.preset].height,
                        data.full_page)

\* the temporary file is created, the dimensions chosen and web_screenshot
\* called  (service.py 21-39)
ServiceTakeScreenshot(s) ==
  /\ s \in live
  /\ pc[s] = "svc_call"
  /\ files' = [files EXCEPT ![TempPath(s)] =
                 [writer |-> "tempfile", image |-> NoImage, data |-> <<>>]]
  /\ LET err == ServiceCallError(request[s].data) IN
     /\ svcDims' = IF err = "KeyError" THEN svcDims
                   ELSE [svcDims EXCEPT ![s] = ServiceDims(request[s].data)]
     /\ IF err # "none"
        THEN /\ failed' = [failed EXCEPT ![s] = err]
             /\ pc' = [pc EXCEPT ![s] = "svc_except"]
             /\ UNCHANGED <<config, output_path>>
        ELSE /\ config' = [config EXCEPT ![s] = ServiceConfig(request[s].data)]
             /\ output_path' = [output_path EXCEPT ![s] = TempPath(s)]
             /\ pc' = [pc EXCEPT ![s] = "ws_setup"]
             /\ UNCHANGED failed
  /\ UNCHANGED <<codec, live, kind, driver, driverLog, scrollY, total_height,
                 viewport_height, num_screenshots, screenshots, pastes,
                 final_image, wsResult, exitCode, request, response, svcResult,
                 clientResult>>

\* what take_screenshot returns  (service.py 41-54)
ServiceResult(at, ws, file) ==
  IF at = "ws_returned"
  THEN IF ~ws.success
       THEN SvcReturn(FALSE, "Screenshot failed", <<>>)
       ELSE SvcReturn(TRUE, "", b64encode(file.data))
  ELSE SvcReturn(FALSE, "Error", <<>>)

\* the rest of take_screenshot: the result, and the finally clause that
\* unlinks the temporary file  (service.py 41-59)
ServiceReturn(s) ==
  /\ s \in live
  /\ pc[s] \in {"ws_returned", "ws_raised", "svc_except"}
  /\ kind[s] = "api"
  /\ svcResult' = [svcResult EXCEPT ![s] =
                     ServiceResult(pc[s], wsResult[s], files[TempPath(s)])]
  /\ files' = [files EXCEPT ![TempPath(s)] = NoFile]
  /\ pc' = [pc EXCEPT ![s] = "svc_returned"]
  /\ UNCHANGED <<svcDims, codec, live, kind, captureVars, exitCode, request, response, clientResult>>

(* ---------------------------------------------------------------------- *)
(* client/screenshot_client.py: receiving                                  *)
(* ---------------------------------------------------------------------- *)
\* the rest of the client method: raise on a status other than 200, else
\* return the JSON body, or decode, save and return the image
\* (screenshot_client.py 19-21, 64-91, 97-99)
ClientReceive(s) ==
  /\ s \in live
  /\ pc[s] = "http_resp"
  /\ request[s].op \in ClientOps
  /\ LET resp == response[s]
         req == request[s]
         image_data == ClientImageData(req.data.format, resp)
     IN IF resp.status # 200
        THEN /\ clientResult' = [clientResult EXCEPT ![s] =
                                   [NoClientResult EXCEPT !.state = "raised"]]
             /\ UNCHANGED files
        ELSE IF req.op # "get_screenshot"
        THEN /\ clientResult' = [clientResult EXCEPT ![s] =
                                   [NoClientResult EXCEPT !.state = "returned",
                                                          !.json = resp.json]]
             /\ UNCHANGED files
        ELSE IF req.output
        THEN /\ files' = [files EXCEPT ![ClientOutputPath] =
                            [writer |-> s, image |-> NoImage, data |-> image_data]]
             /\ clientResult' = [clientResult EXCEPT ![s] =
                                   [NoClientResult EXCEPT !.state = "returned",
                                                          !.data = image_data,
                                                          !.path = ClientOutputPath]]
        ELSE /\ clientResult' = [clientResult EXCEPT ![s] =
                                   [NoClientResult EXCEPT !.state = "returned",
                                                          !.data = image_data]]
             /\ UNCHANGED files
  /\ pc' = [pc EXCEPT ![s] = "done"]
  /\ UNCHANGED <<svcDims, codec, live, kind, captureVars, exitCode, request, response, svcResult>>

(* ---------------------------------------------------------------------- *)
(* The program                                                             *)
(* ---------------------------------------------------------------------- *)
Init ==
  /\ InitCore({"s1"})
  /\ InitApi
  /\ codec = CodecIdle

Next ==
  \E s \in Sessions :
    \/ CliMain(s)
    \/ CliExit(s)
    \/ CliUncaught(s)
    \/ SetupWebdriver(s)
    \/ DriverGet(s)
    \/ SaveScreenshot(s)
    \/ DriverQuit(s)
    \/ Except(s)
    \/ MeasureTotal(s)
    \/ MeasureViewport(s)
    \/ Scroll(s)
    \/ Capture(s)
    \/ Stitch(s)
    \/ SaveImage(s)
    \/ ClientCall(s)
    \/ HttpPost(s)
    \/ ServerNotFound(s)
    \/ get_presets(s)
    \/ health_check(s)
    \/ ApiTakeScreenshot(s)
    \/ ServiceTakeScreenshot(s)
    \/ ServiceReturn(s)
    \/ ApiRespond(s)
    \/ ClientReceive(s)

Spec == Init /\ [][Next]_vars


(* ---------------------------------------------------------------------- *)
(* The image codec on its own: the bytes of a captured file pass through   *)
(* the service's encoding, the server's response and the client's decoding *)
(* ---------------------------------------------------------------------- *)
ByteSamples == {0, 80, 137, 255}

RECURSIVE SeqsUpTo(_, _)
SeqsUpTo(S, n) ==
  IF n = 0 THEN {<<>>}
  ELSE LET shorter == SeqsUpTo(S, n - 1)
       IN shorter \cup {Append(q, x) : q \in {r \in shorter : Len(r) = n - 1}, x \in S}

\* the contents of a captured PNG file: never empty
PngSamples == SeqsUpTo(ByteSamples, MaxPngLen) \ {<<>>}

InitCodec ==
  /\ InitCore({})
  /\ InitApi
  /\ \E png \in PngSamples, format \in Formats :
       codec = [CodecIdle EXCEPT !.stage = "read", !.png = png, !.format = format]

\* image_data = f.read(); b64_data = base64.b64encode(image_data).decode('utf-8')
\* (service.py 45-51)
CodecEncode ==
  /\ codec.stage = "read"
  /\ codec' = [codec EXCEPT !.stage = "encoded", !.image = b64encode(codec.png)]
  /\ UNCHANGED <<coreVars, apiVars>>

\* the handler's answer for the request's format  (main.py 174-183)
CodecRespond ==
  /\ codec.stage = "encoded"
  /\ codec' = [codec EXCEPT !.stage = "responded",
                            !.response = ScreenshotReply(codec.format, codec.image)]
  /\ UNCHANGED <<coreVars, apiVars>>

\* the client's reading of the answer  (screenshot_client.py 69-73)
CodecDecode ==
  /\ codec.stage = "responded"
  /\ codec' = [codec EXCEPT !.stage = "decoded",
                            !.data = ClientImageData(codec.format, codec.response)]
  /\ UNCHANGED <<coreVars, apiVars>>

NextCodec ==
  \/ CodecEncode
  \/ CodecRespond
  \/ CodecDecode

SpecCodec == InitCodec /\ [][NextCodec]_vars


(* ---------------------------------------------------------------------- *)
(* Properties of capture_full_page                                         *)
(* ---------------------------------------------------------------------- *)
\* the least k with k * b >= a, for a >= 0 and b > 0
CeilDiv(a, b) == CHOOSE k \in 0..a : (k - 1) * b < a /\ a <= k * b

RECURSIVE SumCrops(_)
SumCrops(ps) == IF Len(ps) = 0 THEN 0 ELSE ps[1].crop + SumCrops(Tail(ps))

\* session s has composed its image
Stitched(s) == final_image[s].kind = "full"

\* the claims' precondition: totalPageHeight >= viewportHeight > 0
PlanOk(s) ==
  /\ IsInt(total_height[s]) /\ IsInt(viewport_height[s])
  /\ viewport_height[s].v > 0
  /\ total_height[s].v >= viewport_height[s].v

\* C1: for every measured totalPageHeight >= viewportHeight > 0 the number
\* of tiles captured (and pasted) is ceil(totalPageHeight / viewportHeight)
\* and the crop heights of the tiles add up to totalPageHeight.
C1_TileCountAndSum ==
  \A s \in Sessions :
    (Stitched(s) /\ PlanOk(s)) =>
      /\ num_screenshots[s].v = CeilDiv(total_height[s].v, viewport_height[s].v)
      /\ Len(screenshots[s]) = CeilDiv(total_height[s].v, viewport_height[s].v)
      /\ Len(pastes[s]) = Len(screenshots[s])
      /\ SumCrops(pastes[s]) = total_height[s].v

\* a page of 5 rows seen through a viewport of 2: three tiles, the last partial
C1_Witness ==
  \E s \in Sessions :
    /\ Stitched(s) /\ PlanOk(s)
    /\ total_height[s].v = 5 /\ viewport_height[s].v = 2
    /\ Len(pastes[s]) = 3

\* C2: tiles are pasted in index order, tile 0 at offset 0, each next tile
\* where the previous one ended, the last one ending at totalPageHeight, so
\* that every row of the output is written by exactly one tile.
C2_GaplessPastes ==
  \A s \in Sessions :
    (Stitched(s) /\ PlanOk(s)) =>
      LET ps == pastes[s] IN
      /\ Len(ps) >= 1
      /\ \A k \in 1..Len(ps) : ps[k].index = k - 1
      /\ ps[1].offset = 0
      /\ \A k \in 1..(Len(ps) - 1) :
           /\ ps[k + 1].offset = ps[k].offset + ps[k].crop
           /\ ps[k + 1].offset > ps[k].offset
      /\ ps[Len(ps)].offset + ps[Len(ps)].crop = total_height[s].v
      /\ DOMAIN final_image[s].rows = 0..(total_height[s].v - 1)
      /\ \A y \in DOMAIN final_image[s].rows :
           /\ Len(final_image[s].rows[y]) = 1
           /\ LET k == final_image[s].rows[y][1] + 1 IN
              ps[k].offset <= y /\ y < ps[k].offset + ps[k].crop

\* a page of 7 rows and a viewport of 3: pastes at 0, 3 and 6
C2_Witness ==
  \E s \in Sessions :
    /\ Stitched(s) /\ PlanOk(s)
    /\ total_height[s].v = 7 /\ viewport_height[s].v = 3
    /\ Len(pastes[s]) = 3
    /\ pastes[s][3].offset = 6

\* C3: every crop height is in 1..viewportHeight; all tiles but the last
\* have crop height viewportHeight; the last has
\* totalPageHeight - (tileCount-1)*viewportHeight, which is viewportHeight
\* when totalPageHeight is a multiple of viewportHeight; a page of exactly
\* one viewport gives one tile of height viewportHeight.
C3_CropHeights ==
  \A s \in Sessions :
    (Stitched(s) /\ PlanOk(s)) =>
      LET ps == pastes[s]
          n == Len(ps)
          total == total_height[s].v
          vh == viewport_height[s].v
      IN /\ n >= 1
         /\ \A k \in 1..n : ps[k].crop >= 1 /\ ps[k].crop <= vh
         /\ \A k \in 1..(n - 1) : ps[k].crop = vh
         /\ ps[n].crop = total - (n - 1) * vh
         /\ (total % vh = 0) => ps[n].crop = vh
         /\ (total = vh) => (n = 1 /\ ps[1].crop = vh)

\* a page of exactly two viewports: the last tile is a full one
C3_Witness ==
  \E s \in Sessions :
    /\ Stitched(s) /\ PlanOk(s)
    /\ total_height[s].v = 6 /\ viewport_height[s].v = 3
    /\ Len(pastes[s]) = 2
    /\ pastes[s][2].crop = 3

\* C4: the image capture_full_page returns, and the file saved from it, is
\* config.width wide and totalPageHeight high, whatever the page height and
\* the measured viewport height.
C4_OutputSize ==
  \A s \in Sessions :
    Stitched(s) =>
      /\ final_image[s].width = config[s].width
      /\ final_image[s].height = total_height[s].v
      /\ (wsResult[s].set /\ wsResult[s].success) =>
           /\ files[wsResult[s].path].image.width = config[s].width
           /\ files[wsResult[s].path].image.height = total_height[s].v

\* a tall page and a page shorter than the viewport, both saved
C4_Witness ==
  \E s \in Sessions :
    /\ Stitched(s)
    /\ wsResult[s].set /\ wsResult[s].success
    /\ total_height[s].v = 2 /\ viewport_height[s].v = 3
    /\ config[s].width = 390


(* ---------------------------------------------------------------------- *)
(* Properties of web_screenshot                                            *)
(* ---------------------------------------------------------------------- *)
\* the driver steps of a capture: navigation, the two measurements, a
\* scroll, the capture of a tile, the single-viewport capture
DriverSteps == {"get", "page_height", "inner_height", "scroll", "capture", "screenshot"}

\* C5: if a driver step of a capture fails, web_screenshot returns
\* (False, None), the CLI exits non-zero, the service and the API answer
\* with an error, and the session has written no image to any path.
C5_FailureReported ==
  \A s \in Sessions :
    failed[s] \in DriverSteps =>
      /\ pc[s] \in {"ws_except", "ws_returned", "svc_returned", "http_resp", "done"}
      /\ (pc[s] # "ws_except") =>
           (wsResult[s].set /\ ~wsResult[s].success /\ wsResult[s].path = NoPath)
      /\ (kind[s] = "cli" /\ pc[s] = "done") => exitCode[s] = 1
      /\ svcResult[s].set => ~svcResult[s].success
      /\ (response[s] # NoResponse) => response[s].status # 200
      /\ \A p \in Paths : files[p].writer # s

\* the capture of tile 1 of 3 failed and the CLI has exited
C5_Witness ==
  \E s \in Sessions :
    /\ failed[s] = "capture"
    /\ num_screenshots[s].v = 3
    /\ Len(screenshots[s]) = 1
    /\ kind[s] = "cli" /\ pc[s] = "done" /\ exitCode[s] = 1

\* C6: a driver that web_screenshot created has been quit whenever
\* web_screenshot has ended, by return or by exception.
C6_DriverReleased ==
  \A s \in Sessions :
    pc[s] \in {"ws_returned", "ws_raised", "svc_returned", "http_resp", "done"}
      => driver[s] # "open"

\* the number of entries of a driver log that are calls of the given names
RECURSIVE CountCalls(_, _)
CountCalls(log, names) ==
  IF Len(log) = 0 THEN 0
  ELSE (IF log[1][1] \in names THEN 1 ELSE 0) + CountCalls(Tail(log), names)

\* C7: without full-page mode web_screenshot makes no measurement and no
\* scroll, never enters capture_full_page, captures at most one viewport
\* image (exactly one when it succeeds) and leaves the scroll position alone.
C7_SingleViewport ==
  \A s \in Sessions :
    (kind[s] # "none" /\ ~config[s].full_page) =>
      /\ CountCalls(driverLog[s], {"page_height", "inner_height", "scroll", "capture"}) = 0
      /\ CountCalls(driverLog[s], {"screenshot"}) <= 1
      /\ (wsResult[s].set /\ wsResult[s].success) =>
           /\ CountCalls(driverLog[s], {"screenshot"}) = 1
           /\ files[wsResult[s].path].image.kind = "viewport"
           /\ files[wsResult[s].path].image.scrollY = 0
      /\ pc[s] \notin {"cfp_total", "cfp_viewport", "cfp_scroll", "cfp_capture",
                       "cfp_stitch", "ws_save"}
      /\ scrollY[s] = 0
      /\ total_height[s] = Unset /\ viewport_height[s] = Unset
      /\ screenshots[s] = <<>> /\ pastes[s] = <<>>
      /\ final_image[s] = NoImage

\* a single-viewport capture that succeeded
C7_Witness ==
  \E s \in Sessions :
    /\ kind[s] = "cli" /\ ~config[s].full_page
    /\ wsResult[s].set /\ wsResult[s].success
    /\ driver[s] = "quit"
    /\ files[output_path[s]].writer = s

(* ---------------------------------------------------------------------- *)
(* Properties of the service, the server and the client                    *)
(* ---------------------------------------------------------------------- *)
\* C8: for a request with a known preset (or both dimensions) the service
\* reports failure only when the capture itself failed: a service result
\* (False, ..) comes with a web_screenshot that ran and returned failure.
C8_ServiceFailsOnlyWithCapture ==
  \A s \in Sessions :
    (svcResult[s].set /\ RejectStatus(request[s].data) = 0 /\ ~svcResult[s].success)
      => (wsResult[s].set /\ ~wsResult[s].success)

\* the route that serves each client method
ServingRoute(op) ==
  CASE op = "health_check" -> "health_check"
    [] op = "get_presets" -> "get_presets"
    [] op = "get_screenshot" -> "take_screenshot"

\* C9: every request the client issues is routed to the endpoint meant for
\* it, health_check returns a body with status "healthy" and get_presets a
\* body with the key "presets".
C9_ClientRequestsServed ==
  \A s \in Sessions :
    request[s].op \in ClientOps =>
      /\ Route(request[s].method, request[s].path) = ServingRoute(request[s].op)
      /\ (pc[s] = "done" /\ request[s].op = "health_check") =>
           (clientResult[s].state = "returned" /\ clientResult[s].json.kind = "healthy")
      /\ (pc[s] = "done" /\ request[s].op = "get_presets") =>
           (clientResult[s].state = "returned" /\ clientResult[s].json.kind = "presets")

\* C10: for both formats the bytes the client ends with are the bytes of
\* the captured file.
C10_CodecRoundTrip ==
  codec.stage = "decoded" => codec.data = codec.png


(* ---------------------------------------------------------------------- *)
(* The order of the driver calls                                           *)
(* ---------------------------------------------------------------------- *)
IsPrefix(a, b) == Len(a) <= Len(b) /\ SubSeq(b, 1, Len(a)) = a

\* scroll to i*vh then capture there, for the tiles i..n-1
RECURSIVE TileCalls(_, _, _)
TileCalls(i, n, vh) ==
  IF i >= n THEN <<>>
  ELSE <<<<"scroll", i * vh>>, <<"capture", i * vh>>>> \o TileCalls(i + 1, n, vh)

\* the calls of one full-page session, as far as the measurements fix them
FullPageCalls(s) ==
  <<<<"get", 0>>, <<"page_height", 0>>, <<"inner_height", 0>>>>
  \o (IF IsInt(num_screenshots[s])
      THEN TileCalls(0, num_screenshots[s].v, viewport_height[s].v) \o <<<<"quit", 0>>>>
      ELSE <<>>)

\* C11: in a full-page capture the driver calls made so far are always an
\* initial part of: navigate, page height, viewport height, then for
\* i = 0..tileCount-1 one scroll to i * (measured viewport height) followed
\* by one capture at that position, then quit; the captured tiles are the
\* ones of the captures made, in order; quit has happened exactly when the
\* whole sequence has, and a successful capture has made all of it.
C11_CallOrder ==
  \A s \in Sessions :
    (kind[s] # "none" /\ config[s].full_page) =>
      /\ IsPrefix(driverLog[s], FullPageCalls(s))
      /\ \A k \in 1..Len(screenshots[s]) :
           /\ screenshots[s][k].scroll = (k - 1) * viewport_height[s].v
           /\ driverLog[s][3 + 2 * k] = <<"capture", (k - 1) * viewport_height[s].v>>
      /\ (driver[s] = "quit") <=>
           (IsInt(num_screenshots[s]) /\ driverLog[s] = FullPageCalls(s))
      /\ (wsResult[s].set /\ wsResult[s].success) => driver[s] = "quit"

\* three tiles through a viewport of 2, the window being 844 high: scrolls
\* to 0, 2 and 4, each followed by its capture, then quit
C11_Witness ==
  \E s \in Sessions :
    /\ kind[s] = "cli" /\ config[s].full_page /\ config[s].height = 844
    /\ viewport_height[s] = JsInt(2) /\ total_height[s] = JsInt(5)
    /\ driverLog[s] = << <<"get", 0>>, <<"page_height", 0>>, <<"inner_height", 0>>,
                         <<"scroll", 0>>, <<"capture", 0>>,
                         <<"scroll", 2>>, <<"capture", 2>>,
                         <<"scroll", 4>>, <<"capture", 4>>, <<"quit", 0>> >>
    /\ wsResult[s].set /\ wsResult[s].success


(* ---------------------------------------------------------------------- *)
(* Measurements that are not usable                                        *)
(* ---------------------------------------------------------------------- *)
\* session s measured a page or viewport height that is no positive integer
BadMeasurement(s) ==
  /\ viewport_height[s] # Unset
  /\ ArithmeticError(total_height[s], viewport_height[s]) # "none"

\* C12: when a measurement is not a usable positive integer the capture
\* aborts as a reported failure: web_screenshot returns (False, None) and no
\* exception leaves it.
C12_BadMeasurementReported ==
  \A s \in Sessions :
    BadMeasurement(s) =>
      /\ pc[s] # "ws_raised"
      /\ (pc[s] = "done") =>
           (wsResult[s].set /\ ~wsResult[s].success /\ wsResult[s].path = NoPath)


(* ---------------------------------------------------------------------- *)
(* Concurrent sessions: two runs of the CLI, their steps interleaved       *)
(* ---------------------------------------------------------------------- *)
\* the inputs of the concurrent runs: two presets, pages of height 2 and
\* viewports of height 0..2
ConcScope(s) ==
  /\ kind[s] \in {"none", "cli"}
  /\ config[s].width \in {PRESETS["desktop"].width, PRESETS["phone"].width}
  /\ config[s].height \in {PRESETS["desktop"].height, PRESETS["phone"].height}
  /\ total_height[s] \in {Unset, JsInt(2)}
  /\ viewport_height[s] \in {Unset, JsInt(0), JsInt(1), JsInt(2)}

InitConc ==
  /\ InitCore(Sessions)
  /\ InitApi
  /\ codec = CodecIdle

NextConc ==
  \E s \in Sessions :
    \/ CliMain(s) /\ ConcScope(s)'
    \/ CliExit(s)
    \/ CliUncaught(s)
    \/ SetupWebdriver(s)
    \/ DriverGet(s)
    \/ SaveScreenshot(s)
    \/ DriverQuit(s)
    \/ Except(s)
    \/ MeasureTotal(s) /\ ConcScope(s)'
    \/ MeasureViewport(s) /\ ConcScope(s)'
    \/ Scroll(s)
    \/ Capture(s)
    \/ Stitch(s)
    \/ SaveImage(s)

SpecConc == InitConc /\ [][NextConc]_vars

\* C13: with sessions running concurrently no session's output file is
\* overwritten by another: the file at the path a successful session
\* reports holds the image of its own capture.  Stated for the sessions whose
\* file name the program generated (sanitize_filename), so that two runs
\* given the same file name by the user are left out.
C13_OwnOutput ==
  \A s \in Sessions :
    (kind[s] = "cli" /\ wsResult[s].set /\ wsResult[s].success /\ output_path[s].ts # 0)
      => files[wsResult[s].path].writer = s


(* ---------------------------------------------------------------------- *)
(* The validation of POST /api/screenshot                                  *)
(* ---------------------------------------------------------------------- *)
\* session s posted a body that validates as a ScreenshotRequest to
\* /api/screenshot and the handler has acted on it
Handled(s) ==
  /\ request[s].op # "none"
  /\ Route(request[s].method, request[s].path) = "take_screenshot"
  /\ is_url(request[s].data.url)
  /\ pc[s] # "http_sent"

\* C14: the handler answers 400 without invoking the service exactly when
\* the preset is not in PRESETS and width and height are not both given; in
\* every other case the service is invoked, takes the custom width and
\* height when both are given and the preset's otherwise, and never looks
\* up a preset that is not in PRESETS.
C14_Validation ==
  \A s \in Sessions :
    Handled(s) =>
      LET d == request[s].data
          both == d.width # NoneInt /\ d.height # NoneInt
      IN IF d.preset \notin PresetNames /\ ~both
         THEN /\ pc[s] \in {"http_resp", "done"}
              /\ response[s].status = 400
              /\ ~svcResult[s].set
              /\ svcDims[s] = [w |-> NoneInt, h |-> NoneInt]
              /\ failed[s] = "none"
              /\ files[TempPath(s)] = NoFile
         ELSE /\ (response[s] # NoResponse) =>
                   (response[s].status # 400 /\ svcResult[s].set)
              /\ failed[s] # "KeyError"
              /\ (pc[s] # "svc_call") =>
                   svcDims[s] = IF both THEN [w |-> d.width, h |-> d.height]
                                ELSE [w |-> PRESETS[d.preset].width,
                                      h |-> PRESETS[d.preset].height]

\* an unknown preset with a width but no height is rejected with 400
C14_Witness ==
  \E s \in Sessions :
    /\ Handled(s)
    /\ request[s].data.preset = "bogus"
    /\ request[s].data.width = 800 /\ request[s].data.height = NoneInt
    /\ response[s].status = 400

\* an unknown preset with both dimensions reaches the service, which takes
\* the custom dimensions
C14_WitnessCustom ==
  \E s \in Sessions :
    /\ Handled(s)
    /\ request[s].data.preset = "bogus"
    /\ svcDims[s] = [w |-> 800, h |-> 600]
    /\ svcResult[s].set

====
